---------------------------- MODULE Spec2Model ----------------------------
(***************************************************************************)
(* Model of the resiliency client of src/client.py: the CircuitBreaker,    *)
(* the exponential_backoff_retry decorator, and the three tiers of         *)
(* ECommerceApp, with the ChaosMonkey that moves the load metric.          *)
(*                                                                         *)
(* Time.  time.time() is the variable now, counted in ticks; one time unit *)
(* of the program (a second) is Unit ticks, so that the jitter of          *)
(* random.uniform(0, 0.5) has values strictly between 0 and a whole unit.  *)
(* Time passes by Tick at any point, also in the middle of a handler (a    *)
(* request takes time), and by time.sleep.                                 *)
(*                                                                         *)
(* Control.  Every handler is cut into the steps of its code; pc[t] is the *)
(* position of caller t, frame[t] its local variables and obs[t] what an   *)
(* observer of the caller has seen of the handler that runs or ran last:   *)
(* the requests sent to the transport, the delays slept, what the breaker  *)
(* or the retry wrapper delivered, and how the handler ended.  The program *)
(* of the repository is sequential: Init has the single caller "main".     *)
(*                                                                         *)
(* Programs.  The module is run by one of two programs: "app", which       *)
(* constructs the ECommerceApp and calls its handlers and its ChaosMonkey  *)
(* in any order, as the main block does in one order; and "harness", which *)
(* applies the decorator to an operation that takes the timeout keyword    *)
(* and calls it.  The method the application decorates does not take that  *)
(* keyword, so the retry loop is only ever entered under the harness.      *)
(***************************************************************************)
EXTENDS Integers, Sequences, FiniteSets, TLC

VARIABLES
    state,              \* CircuitBreaker.state
    failure_count,      \* CircuitBreaker.failure_count
    last_failure_time,  \* CircuitBreaker.last_failure_time (None or a tick)
    failure_threshold,  \* CircuitBreaker.failure_threshold
    recovery_timeout,   \* CircuitBreaker.recovery_timeout (time units)
    system_load,        \* ECommerceApp.system_load
    program,            \* "app" or "harness": what runs the module
    now,                \* time.time(), in ticks
    pc,                 \* pc[t]: position of caller t in its handler
    frame,              \* frame[t]: the local variables of caller t
    obs,                \* obs[t]: what was observed of t's current/last handler
    streak,             \* attempted breaker calls that failed since the last one that succeeded
    all_failed          \* no request to /unreliable has been answered below 500 so far

vars == <<state, failure_count, last_failure_time, failure_threshold,
          recovery_timeout, system_load, program, now, pc, frame, obs, streak,
          all_failed>>

breaker == <<state, failure_count, last_failure_time>>
config == <<failure_threshold, recovery_timeout, program>>
history == <<streak, all_failed>>

----------------------------------------------------------------------------
(* Bounds of the model                                                     *)

\* ticks per time unit of the program
Unit == 2
\* the clock stops at MaxTime ticks
MaxTime == 14
\* largest failure_threshold a generic breaker is constructed with
MaxThreshold == 3

----------------------------------------------------------------------------
(* Values                                                                  *)

None == -1

Min(a, b) == IF a <= b THEN a ELSE b

Threads == DOMAIN pc

\* Status codes a response may carry: both sides of the 500 boundary.
StatusCodes == {200, 499, 500}

\* What an operation that reaches the transport may raise: a timeout, another
\* transport error of requests, or an exception of any other class.
RaisedByTransport == {"Timeout", "ConnectionError", "ValueError"}

\* The outcome of one call of the transport.
Outcomes ==
    [status : StatusCodes, exc : {"none"}]
        \cup [status : {None}, exc : RaisedByTransport]

\* No call of the transport has ended yet.
NoOutcome == [status |-> None, exc |-> "none"]

\* The classes an exception is an instance of.
Classes(e) ==
    CASE e = "Timeout"         -> {"Timeout", "RequestException", "Exception"}
      [] e = "ConnectionError" -> {"ConnectionError", "RequestException", "Exception"}
      [] e = "ServerError"     -> {"Exception"}
      [] e = "CircuitOpen"     -> {"Exception"}
      [] e = "TypeError"       -> {"TypeError", "Exception"}
      [] e = "KeyError"        -> {"KeyError", "Exception"}
      [] e = "ValueError"      -> {"ValueError", "Exception"}
      [] e = "AttributeError"  -> {"AttributeError", "Exception"}
      [] OTHER                 -> {}

IsInstance(e, class) == class \in Classes(e)

\* One observed event of a handler.
\*   "request": a request handed to the transport
\*              (target: the path, arg: the timeout given or None)
\*   "call":    the retry wrapper called the wrapped function
\*              (target: the function, arg: the timeout keyword)
\*   "sleep":   the retry wrapper slept
\*              (target: the function, arg: delay, without the jitter)
Event(ev, target, arg) == [ev |-> ev, target |-> target, arg |-> arg]

Select(t, kind) == SelectSeq(obs[t].trace, LAMBDA x : x.ev = kind)
Requests(t) == Select(t, "request")
Calls(t) == Select(t, "call")
Sleeps(t) == Select(t, "sleep")

----------------------------------------------------------------------------
(* Construction                                                            *)

\* exponential_backoff_retry(max_retries=3) as applied at the method
\* fetch_recommendations_with_retry: base_delay and max_delay by default.
AppRetry == [max_retries |-> 3, base_delay |-> 1, max_delay |-> 8]

\* Configurations the decorator is applied with to an operation that takes
\* the timeout keyword: with and without retries, the cap above and below
\* the exponential delays.
RetryConfigs ==
    { AppRetry,
      [max_retries |-> 3, base_delay |-> 1, max_delay |-> 2],
      [max_retries |-> 2, base_delay |-> 2, max_delay |-> 3],
      [max_retries |-> 0, base_delay |-> 1, max_delay |-> 8] }

InitFrame ==
    [ op          |-> "none",   \* the handler that runs
      func        |-> "none",   \* the function the retry wrapper wraps
      cfg         |-> AppRetry, \* the arguments of the decorator
      retries     |-> 0,        \* wrapper: retries
      delay       |-> 0,        \* wrapper: delay, in time units
      total_delay |-> 0,        \* wrapper: total_delay, in ticks
      response    |-> None,     \* the status code of the response held
      e           |-> "none",   \* the exception being handled
      count       |-> 0 ]       \* failure_count as loaded by +=

InitObs ==
    [ op       |-> "none",    \* the handler observed
      cfg      |-> AppRetry,  \* the arguments of the decorator it ran under
      trace    |-> <<>>,      \* its events, in order
      last     |-> NoOutcome, \* how the last call of the operation ended
      slept    |-> None,      \* the ticks the last time.sleep took
      timeouts |-> TRUE,      \* every call of the wrapped function so far timed out
      gate     |-> "none",    \* the breaker as the call found it
      count    |-> None,      \* failure_count as the call found it
      inner    |-> "none",    \* what breaker.call / the wrapper delivered
      value    |-> None,      \* the status of the response delivered
      result   |-> "none",    \* how the handler ended
      load     |-> None ]     \* the load read by the shedding check

InitCommon ==
    /\ state = "CLOSED"
    /\ failure_count = 0
    /\ last_failure_time = None
    /\ now = 0
    /\ program \in {"app", "harness"}
    /\ pc = [t \in {"main"} |-> "idle"]
    /\ frame = [t \in {"main"} |-> InitFrame]
    /\ obs = [t \in {"main"} |-> InitObs]
    /\ streak = 0
    /\ all_failed = TRUE

\* ECommerceApp.__init__: CircuitBreaker(failure_threshold=2, recovery_timeout=5),
\* system_load 0.
Init ==
    /\ InitCommon
    /\ failure_threshold = 2
    /\ recovery_timeout = 5
    /\ system_load = 0

\* CircuitBreaker.__init__ with any threshold and a recovery timeout short
\* enough for a breaker to open, probe and open again before the clock stops,
\* and with the arguments of the application.
InitBreaker ==
    /\ InitCommon
    /\ \E c \in ((1..MaxThreshold) \X {2}) \cup {<<2, 5>>} :
        /\ failure_threshold = c[1]
        /\ recovery_timeout = c[2]
    /\ system_load = 0

\* The application with its load metric already set from outside, on both
\* sides of the shedding threshold.
InitLoad ==
    /\ InitCommon
    /\ failure_threshold = 2
    /\ recovery_timeout = 5
    /\ system_load \in {0, 80, 81}

----------------------------------------------------------------------------
(* Steps shared by the handlers                                            *)

\* Caller t moves to position p with locals f and observations o.
Goto(t, p, f, o) ==
    /\ pc' = [pc EXCEPT ![t] = p]
    /\ frame' = [frame EXCEPT ![t] = f]
    /\ obs' = [obs EXCEPT ![t] = o]

\* The handler of t ends with result r: its locals are gone, what was
\* observed of it stays until the next handler of t starts.
Finish(t, r, o) == Goto(t, "idle", InitFrame, [o EXCEPT !.result = r])

Saw(o, event) == [o EXCEPT !.trace = Append(@, event)]

\* time passes
Tick ==
    /\ now < MaxTime
    /\ now' = now + 1
    /\ UNCHANGED <<breaker, config, system_load, pc, frame, obs, history>>

----------------------------------------------------------------------------
(* CircuitBreaker.call, as called by ECommerceApp.load_reviews             *)

\* The elapsed time compared with >= in place of >.
RecoveryElapsedInclusive(t_now, t_last, timeout) == t_now - t_last >= timeout * Unit

\* The operands of the subtraction swapped.
RecoveryElapsedSwapped(t_now, t_last, timeout) == t_last - t_now > timeout * Unit

\* line 25: time.time() - self.last_failure_time > self.recovery_timeout
RecoveryElapsed(t_now, t_last, timeout) == t_now - t_last > timeout * Unit

\* Client errors counted as failures too.
IsClientOrServerError(status) == status >= 400

\* The status compared with > in place of >=.
IsServerErrorAbove(status) == status > 500

\* line 34: response.status_code >= 500
IsServerError(status) == status >= 500

\* The threshold compared with = in place of >=.
ThresholdReachedExactly(count, threshold) == count = threshold

\* The threshold compared with > in place of >=.
ThresholdReachedStrict(count, threshold) == count > threshold

\* line 47: self.failure_count >= self.failure_threshold
ThresholdReached(count, threshold) == count >= threshold

\* A handler that catches the errors of requests only.
CaughtOnlyRequestErrors(e) == IsInstance(e, "RequestException")

\* lines 95, 104, 124: except Exception
CaughtByHandler(e) == IsInstance(e, "Exception")

\* line 42: except Exception
CaughtByBreaker(e) == IsInstance(e, "Exception")

\* How a call finds the breaker, as an observer with a clock sees it.
GateFound ==
    IF state # "OPEN" THEN state
    ELSE IF last_failure_time = None THEN "OPEN_unset"
    ELSE IF now - last_failure_time > recovery_timeout * Unit THEN "OPEN_elapsed"
    ELSE "OPEN_within"

\* An attempted call fails when the operation raises or answers 500 or above.
Failed(o) == o.exc # "none" \/ o.status >= 500

\* load_reviews, lines 98-102: enters the try block and calls the breaker.
load_reviews(t) ==
    /\ program = "app"
    /\ pc[t] = "idle"
    /\ Goto(t, "call_gate", [InitFrame EXCEPT !.op = "load_reviews"],
               [InitObs EXCEPT !.op = "load_reviews"])
    /\ UNCHANGED <<breaker, config, system_load, now, history>>

\* A gate whose rejection starts the recovery window again.
call_gate_rejection_stamps(t) ==
    /\ pc[t] = "call_gate"
    /\ LET o == [obs[t] EXCEPT !.gate = GateFound, !.count = failure_count]
           raise(x) == Goto(t, "reviews_except", [frame[t] EXCEPT !.e = x],
                               [o EXCEPT !.inner = x])
       IN  IF state = "OPEN"
           THEN IF last_failure_time = None
                THEN raise("TypeError") /\ UNCHANGED <<state, last_failure_time>>
                ELSE IF RecoveryElapsed(now, last_failure_time, recovery_timeout)
                THEN /\ state' = "HALF_OPEN"
                     /\ Goto(t, "call_func", frame[t], o)
                     /\ UNCHANGED last_failure_time
                ELSE /\ raise("CircuitOpen")
                     /\ last_failure_time' = now
                     /\ UNCHANGED state
           ELSE Goto(t, "call_func", frame[t], o) /\ UNCHANGED <<state, last_failure_time>>
    /\ UNCHANGED <<failure_count, config, system_load, now, history>>

\* call, lines 24-30: an OPEN breaker lets the call through as a probe once
\* the recovery timeout has elapsed, and rejects it before.
call_gate(t) ==
    /\ pc[t] = "call_gate"
    /\ LET o == [obs[t] EXCEPT !.gate = GateFound, !.count = failure_count]
           raise(x) == Goto(t, "reviews_except", [frame[t] EXCEPT !.e = x],
                               [o EXCEPT !.inner = x])
       IN  IF state = "OPEN"
           THEN IF last_failure_time = None
                THEN raise("TypeError") /\ UNCHANGED state
                ELSE IF RecoveryElapsed(now, last_failure_time, recovery_timeout)
                THEN state' = "HALF_OPEN" /\ Goto(t, "call_func", frame[t], o)
                ELSE raise("CircuitOpen") /\ UNCHANGED state
           ELSE Goto(t, "call_func", frame[t], o) /\ UNCHANGED state
    /\ UNCHANGED <<failure_count, last_failure_time, config, system_load, now, history>>

\* call, lines 33-35: the operation, requests.get on /unreliable, is called;
\* a response of 500 or above is turned into an exception.
call_func(t) ==
    /\ pc[t] = "call_func"
    /\ \E o \in Outcomes :
        /\ LET seen == Saw([obs[t] EXCEPT !.last = o], Event("request", "/unreliable", None))
               f == frame[t]
           IN  IF o.exc # "none"
               THEN IF CaughtByBreaker(o.exc)
                    THEN Goto(t, "call_count_load", [f EXCEPT !.e = o.exc], seen)
                    ELSE Goto(t, "reviews_except", [f EXCEPT !.e = o.exc],
                                 [seen EXCEPT !.inner = o.exc])
               ELSE IF IsServerError(o.status)
               THEN Goto(t, "call_count_load", [f EXCEPT !.e = "ServerError"], seen)
               ELSE Goto(t, "call_success", [f EXCEPT !.response = o.status], seen)
        /\ streak' = IF Failed(o) THEN streak + 1 ELSE 0
        /\ all_failed' = (all_failed /\ Failed(o))
    /\ UNCHANGED <<breaker, config, system_load, now>>

\* Success that resets the count of a probe only.
call_success_resets_probe_only(t) ==
    /\ pc[t] = "call_success"
    /\ failure_count' = IF state = "HALF_OPEN" THEN 0 ELSE failure_count
    /\ state' = "CLOSED"
    /\ Goto(t, "reviews_log", frame[t],
            [obs[t] EXCEPT !.inner = "returned", !.value = frame[t].response])
    /\ UNCHANGED <<last_failure_time, config, system_load, now, history>>

\* Success that closes the breaker and leaves the count as it is.
call_success_keeps_count(t) ==
    /\ pc[t] = "call_success"
    /\ state' = "CLOSED"
    /\ Goto(t, "reviews_log", frame[t],
            [obs[t] EXCEPT !.inner = "returned", !.value = frame[t].response])
    /\ UNCHANGED <<failure_count, last_failure_time, config, system_load, now, history>>

\* call, lines 38-40: success resets the breaker and returns the response.
call_success(t) ==
    /\ pc[t] = "call_success"
    /\ failure_count' = 0
    /\ state' = "CLOSED"
    /\ Goto(t, "reviews_log", frame[t],
            [obs[t] EXCEPT !.inner = "returned", !.value = frame[t].response])
    /\ UNCHANGED <<last_failure_time, config, system_load, now, history>>

\* call, line 43, self.failure_count += 1: the load of the attribute ...
call_count_load(t) ==
    /\ pc[t] = "call_count_load"
    /\ Goto(t, "call_count_store", [frame[t] EXCEPT !.count = failure_count], obs[t])
    /\ UNCHANGED <<breaker, config, system_load, now, history>>

\* A count that stops at the threshold.
call_count_store_saturating(t) ==
    /\ pc[t] = "call_count_store"
    /\ failure_count' = Min(frame[t].count + 1, failure_threshold)
    /\ Goto(t, "call_stamp", frame[t], obs[t])
    /\ UNCHANGED <<state, last_failure_time, config, system_load, now, history>>

\* ... and the store of the sum.
call_count_store(t) ==
    /\ pc[t] = "call_count_store"
    /\ failure_count' = frame[t].count + 1
    /\ Goto(t, "call_stamp", frame[t], obs[t])
    /\ UNCHANGED <<state, last_failure_time, config, system_load, now, history>>

\* call, line 44: self.last_failure_time = time.time()
call_stamp(t) ==
    /\ pc[t] = "call_stamp"
    /\ last_failure_time' = now
    /\ Goto(t, "call_trip", frame[t], obs[t])
    /\ UNCHANGED <<state, failure_count, config, system_load, now, history>>

\* call, lines 47-51: the breaker trips at the threshold; the exception is
\* raised to the caller in either case.
call_trip(t) ==
    /\ pc[t] = "call_trip"
    /\ state' = IF ThresholdReached(failure_count, failure_threshold)
                THEN "OPEN" ELSE state
    /\ Goto(t, "reviews_except", frame[t], [obs[t] EXCEPT !.inner = frame[t].e])
    /\ UNCHANGED <<failure_count, last_failure_time, config, system_load, now, history>>

\* load_reviews, line 103: response.json()['message'] is logged; a body
\* without that key raises KeyError inside the try block.
reviews_log(t) ==
    /\ pc[t] = "reviews_log"
    /\ \E has_message \in BOOLEAN :
        IF has_message
        THEN Finish(t, "live", obs[t])
        ELSE Goto(t, "reviews_except", [frame[t] EXCEPT !.e = "KeyError"], obs[t])
    /\ UNCHANGED <<breaker, config, system_load, now, history>>

\* load_reviews, lines 104-106: the fallback.
reviews_except(t) ==
    /\ pc[t] = "reviews_except"
    /\ IF CaughtByHandler(frame[t].e)
       THEN Finish(t, "fallback", obs[t])
       ELSE Finish(t, "raised", obs[t])
    /\ UNCHANGED <<breaker, config, system_load, now, history>>

----------------------------------------------------------------------------
(* exponential_backoff_retry: the wrapper of the decorated function        *)

\* line 63: timeout=3
AttemptTimeout == 3

\* line 60: while retries <= max_retries
MayAttempt(retries, max_retries) == retries <= max_retries

\* An except clause that takes every exception.
RetryableAny(e) == IsInstance(e, "Exception")

\* line 64: except (requests.exceptions.Timeout, requests.exceptions.RequestException)
Retryable(e) == IsInstance(e, "Timeout") \/ IsInstance(e, "RequestException")

\* The retries compared with >= in place of >.
ExhaustedEarly(retries, max_retries) == retries >= max_retries

\* line 66: if retries > max_retries
Exhausted(retries, max_retries) == retries > max_retries

\* The delay without its cap.
BackoffDelayUncapped(retries, base_delay, max_delay) == base_delay * 2 ^ (retries - 1)

\* line 71: delay = min(base_delay * (2 ** (retries - 1)), max_delay)
BackoffDelay(retries, base_delay, max_delay) ==
    Min(base_delay * 2 ^ (retries - 1), max_delay)

\* line 72: jitter = random.uniform(0, 0.5), in ticks
Jitter == {j \in 0..Unit : 2 * j <= Unit}

\* Whether the wrapped function takes the keyword timeout that line 63
\* passes: fetch_recommendations_with_retry(self), lines 109-110, does not;
\* "operation" stands for a function that does and hands it to the transport.
AcceptsTimeout(func) == func = "operation"

\* The path the wrapped function requests.
Target(func) == IF func = "fetch_recommendations_with_retry" THEN "/slow" ELSE func

\* The wrapper returns (x = "returned") or raises x to its caller: to
\* load_recommendations inside its try block, or to the caller of a
\* decorated operation.
Deliver(t, f, o, x) ==
    LET seen == [o EXCEPT !.inner = x,
                          !.value = IF x = "returned" THEN f.response ELSE None]
    IN  IF f.op = "load_recommendations"
        THEN Goto(t, "recommendations_end",
                  [f EXCEPT !.e = IF x = "returned" THEN "none" ELSE x], seen)
        ELSE Finish(t, IF x = "returned" THEN "returned" ELSE "raised", seen)

\* The wrapper with the return of line 63 left out: the response of a call
\* is dropped and the loop goes round.
wrapper_call_without_return(t) ==
    /\ pc[t] = "wrapper_call"
    /\ LET f == frame[t]
       IN  IF ~MayAttempt(f.retries, f.cfg.max_retries) \/ ~AcceptsTimeout(f.func)
           THEN Deliver(t, f, obs[t], "TypeError")
           ELSE \E o \in Outcomes :
                LET called == Saw([obs[t] EXCEPT !.timeouts = @ /\ o.exc = "Timeout", !.last = o],
                                  Event("call", f.func, AttemptTimeout))
                    seen == Saw(called, Event("request", Target(f.func), AttemptTimeout))
                IN  IF o.exc = "none"
                    THEN Goto(t, "wrapper_except", [f EXCEPT !.response = o.status], seen)
                    ELSE IF Retryable(o.exc)
                    THEN Goto(t, "wrapper_except", [f EXCEPT !.e = o.exc], seen)
                    ELSE Deliver(t, f, seen, o.exc)
    /\ UNCHANGED <<breaker, config, system_load, now, history>>

\* wrapper, lines 60-64: the loop test and one call of the wrapped function
\* with timeout=3.  A response is returned whatever its status; an exception
\* of the except clause is handled, any other leaves the wrapper.
wrapper_call(t) ==
    /\ pc[t] = "wrapper_call"
    /\ LET f == frame[t]
       IN  IF ~MayAttempt(f.retries, f.cfg.max_retries)
           THEN Deliver(t, f, obs[t], "returned")
           ELSE IF ~AcceptsTimeout(f.func)
           THEN LET seen == Saw([obs[t] EXCEPT !.timeouts = FALSE,
                                                !.last = [NoOutcome EXCEPT !.exc = "TypeError"]],
                                Event("call", f.func, AttemptTimeout))
                IN  IF Retryable("TypeError")
                    THEN Goto(t, "wrapper_except", [f EXCEPT !.e = "TypeError"], seen)
                    ELSE Deliver(t, f, seen, "TypeError")
           ELSE \E o \in Outcomes :
                LET called == Saw([obs[t] EXCEPT !.timeouts = @ /\ o.exc = "Timeout", !.last = o],
                                  Event("call", f.func, AttemptTimeout))
                    seen == Saw(called, Event("request", Target(f.func), AttemptTimeout))
                IN  IF o.exc = "none"
                    THEN Deliver(t, [f EXCEPT !.response = o.status], seen, "returned")
                    ELSE IF Retryable(o.exc)
                    THEN Goto(t, "wrapper_except", [f EXCEPT !.e = o.exc], seen)
                    ELSE Deliver(t, f, seen, o.exc)
    /\ UNCHANGED <<breaker, config, system_load, now, history>>

\* The wrapper without the test of line 66: it sleeps after every failure
\* and leaves the end of the loop to the test of line 60.
wrapper_except_always_sleeps(t) ==
    /\ pc[t] = "wrapper_except"
    /\ LET f == [frame[t] EXCEPT !.retries = @ + 1]
       IN  \E jitter \in Jitter :
                LET delay == BackoffDelay(f.retries, f.cfg.base_delay, f.cfg.max_delay)
                IN  Goto(t, "wrapper_sleep",
                         [f EXCEPT !.delay = delay, !.total_delay = delay * Unit + jitter],
                         obs[t])
    /\ UNCHANGED <<breaker, config, system_load, now, history>>

\* wrapper, lines 65-73: a retry is counted; past max_retries the exception
\* is raised, otherwise the delay and its jitter are computed.
wrapper_except(t) ==
    /\ pc[t] = "wrapper_except"
    /\ LET f == [frame[t] EXCEPT !.retries = @ + 1]
       IN  IF Exhausted(f.retries, f.cfg.max_retries)
           THEN Deliver(t, f, obs[t], f.e)
           ELSE \E jitter \in Jitter :
                LET delay == BackoffDelay(f.retries, f.cfg.base_delay, f.cfg.max_delay)
                IN  Goto(t, "wrapper_sleep",
                         [f EXCEPT !.delay = delay, !.total_delay = delay * Unit + jitter],
                         obs[t])
    /\ UNCHANGED <<breaker, config, system_load, now, history>>

\* wrapper, line 76: time.sleep(total_delay), then the loop goes round.
wrapper_sleep(t) ==
    /\ pc[t] = "wrapper_sleep"
    /\ now + frame[t].total_delay <= MaxTime
    /\ now' = now + frame[t].total_delay
    /\ Goto(t, "wrapper_call", frame[t],
            Saw([obs[t] EXCEPT !.slept = now' - now],
                Event("sleep", frame[t].func, frame[t].delay)))
    /\ UNCHANGED <<breaker, config, system_load, history>>

\* The decorator applied to an operation that takes the timeout keyword,
\* called once: wrapper, line 59.
execute(t) ==
    /\ program = "harness"
    /\ pc[t] = "idle"
    /\ \E c \in RetryConfigs :
        Goto(t, "wrapper_call",
             [InitFrame EXCEPT !.op = "execute", !.func = "operation", !.cfg = c],
             [InitObs EXCEPT !.op = "execute", !.cfg = c])
    /\ UNCHANGED <<breaker, config, system_load, now, history>>

----------------------------------------------------------------------------
(* ECommerceApp: Tier 1 and Tier 3, and the ChaosMonkey                    *)

\* line 117: the threshold of the load shedding
ShedThreshold == 80

\* The load compared with >= in place of >.
ShouldShedInclusive(load) == load >= ShedThreshold

\* line 117: if self.system_load > 80
ShouldShed(load) == load > ShedThreshold

\* Tier 1 with its failures counted on the breaker of Tier 2.
view_product_counts_failures(t) ==
    /\ program = "app"
    /\ pc[t] = "idle"
    /\ \E o \in Outcomes, has_message \in BOOLEAN :
        LET seen == Saw([InitObs EXCEPT !.op = "view_product"],
                        Event("request", "/healthy", None))
            done == [seen EXCEPT !.last = o]
            e == IF o.exc # "none" THEN o.exc
                 ELSE IF has_message THEN "none" ELSE "KeyError"
        IN  /\ failure_count' = IF e = "none" THEN failure_count ELSE failure_count + 1
            /\ IF e = "none" THEN Finish(t, "live", done)
               ELSE Finish(t, "critical", done)
    /\ UNCHANGED <<state, last_failure_time, config, system_load, now, history>>

\* view_product, lines 89-96: one request to /healthy without a timeout; any
\* exception, also of the logging of the message, is logged as critical.
view_product(t) ==
    /\ program = "app"
    /\ pc[t] = "idle"
    /\ \E o \in Outcomes, has_message \in BOOLEAN :
        LET seen == Saw([InitObs EXCEPT !.op = "view_product"],
                        Event("request", "/healthy", None))
            done == [seen EXCEPT !.last = o]
            e == IF o.exc # "none" THEN o.exc
                 ELSE IF has_message THEN "none" ELSE "KeyError"
        IN  IF e = "none" THEN Finish(t, "live", done)
            ELSE IF CaughtByHandler(e) THEN Finish(t, "critical", done)
            ELSE Finish(t, "raised", done)
    /\ UNCHANGED <<breaker, config, system_load, now, history>>

\* load_recommendations, lines 112-122: the load is read once; above the
\* threshold the handler returns at once, otherwise it calls the decorated
\* method inside its try block.
load_recommendations(t) ==
    /\ program = "app"
    /\ pc[t] = "idle"
    /\ LET o == [InitObs EXCEPT !.op = "load_recommendations", !.load = system_load]
       IN  IF ShouldShed(system_load)
           THEN Finish(t, "shed", o)
           ELSE Goto(t, "wrapper_call",
                     [InitFrame EXCEPT !.op = "load_recommendations",
                                       !.func = "fetch_recommendations_with_retry",
                                       !.cfg = AppRetry], o)
    /\ UNCHANGED <<breaker, config, system_load, now, history>>

\* load_recommendations, lines 123-125: the message of a response is logged
\* (None has no json(), a body without the key raises KeyError); on any
\* exception of the try block the feature is hidden.
recommendations_end(t) ==
    /\ pc[t] = "recommendations_end"
    /\ \E has_message \in BOOLEAN :
        LET e == IF frame[t].e # "none" THEN frame[t].e
                 ELSE IF frame[t].response = None THEN "AttributeError"
                 ELSE IF has_message THEN "none" ELSE "KeyError"
        IN  IF e = "none" THEN Finish(t, "live", obs[t])
            ELSE IF CaughtByHandler(e) THEN Finish(t, "degraded", obs[t])
            ELSE Finish(t, "raised", obs[t])
    /\ UNCHANGED <<breaker, config, system_load, now, history>>

\* ChaosMonkey.inject_load_spike, lines 134-136
inject_load_spike(t) ==
    /\ program = "app"
    /\ pc[t] = "idle"
    /\ system_load' = 95
    /\ UNCHANGED <<breaker, config, now, pc, frame, obs, history>>

\* ChaosMonkey.resolve_load_spike, lines 138-140
resolve_load_spike(t) ==
    /\ program = "app"
    /\ pc[t] = "idle"
    /\ system_load' = 20
    /\ UNCHANGED <<breaker, config, now, pc, frame, obs, history>>

----------------------------------------------------------------------------
(* Specifications                                                          *)

Next ==
    \/ Tick
    \/ \E t \in Threads : view_product(t)
    \/ \E t \in Threads : load_reviews(t)
    \/ \E t \in Threads : call_gate(t)
    \/ \E t \in Threads : call_func(t)
    \/ \E t \in Threads : call_success(t)
    \/ \E t \in Threads : call_count_load(t)
    \/ \E t \in Threads : call_count_store(t)
    \/ \E t \in Threads : call_stamp(t)
    \/ \E t \in Threads : call_trip(t)
    \/ \E t \in Threads : reviews_log(t)
    \/ \E t \in Threads : reviews_except(t)
    \/ \E t \in Threads : load_recommendations(t)
    \/ \E t \in Threads : recommendations_end(t)
    \/ \E t \in Threads : execute(t)
    \/ \E t \in Threads : wrapper_call(t)
    \/ \E t \in Threads : wrapper_except(t)
    \/ \E t \in Threads : wrapper_sleep(t)
    \/ \E t \in Threads : inject_load_spike(t)
    \/ \E t \in Threads : resolve_load_spike(t)

\* the application as main constructs it
Spec == Init /\ [][Next]_vars

\* a breaker of any threshold
SpecBreaker == InitBreaker /\ [][Next]_vars

\* the application under any load
SpecLoad == InitLoad /\ [][Next]_vars

\* Two callers share the breaker of one ECommerceApp: nothing in
\* CircuitBreaker.call, lines 23-51, keeps one caller out while another is
\* inside, so their steps interleave in any order.
InitRace ==
    /\ state = "CLOSED"
    /\ failure_count = 0
    /\ last_failure_time = None
    /\ failure_threshold = 2
    /\ recovery_timeout = 5
    /\ system_load = 0
    /\ program = "app"
    /\ now = 0
    /\ pc = [t \in {"a", "b"} |-> "idle"]
    /\ frame = [t \in {"a", "b"} |-> InitFrame]
    /\ obs = [t \in {"a", "b"} |-> InitObs]
    /\ streak = 0
    /\ all_failed = TRUE

\* The steps of load_reviews and of the breaker, of either caller, within
\* one instant of the clock.
NextRace ==
    \/ \E t \in Threads : load_reviews(t)
    \/ \E t \in Threads : call_gate(t)
    \/ \E t \in Threads : call_func(t)
    \/ \E t \in Threads : call_success(t)
    \/ \E t \in Threads : call_count_load(t)
    \/ \E t \in Threads : call_count_store(t)
    \/ \E t \in Threads : call_stamp(t)
    \/ \E t \in Threads : call_trip(t)
    \/ \E t \in Threads : reviews_log(t)
    \/ \E t \in Threads : reviews_except(t)

\* two concurrent callers of load_reviews
SpecRace == InitRace /\ [][NextRace]_vars

----------------------------------------------------------------------------
(* Properties                                                              *)

\* no handler is running
AllIdle == \A t \in Threads : pc[t] = "idle"

\* the last handler of caller t was h, and it has ended
Done(t, h) == pc[t] = "idle" /\ obs[t].op = h

\* C1. Breaker trip: whenever the last failureThreshold or more attempted
\* calls have all failed, the breaker is OPEN once the call has ended; and a
\* call that finds the breaker OPEN with no more than recoveryTimeout elapsed
\* since the last failure is ended by the circuit-open error without any
\* request to the operation.
BreakerTrips ==
    /\ (AllIdle /\ streak >= failure_threshold) => state = "OPEN"
    /\ \A t \in Threads :
        obs[t].gate = "OPEN_within" =>
            /\ obs[t].inner = "CircuitOpen"
            /\ Requests(t) = <<>>
            /\ state = "OPEN"

\* C1 happens: a breaker of threshold 3 was tripped by three failures in a
\* row and the next call, within the timeout, was rejected.
BreakerTripsWitness ==
    \E t \in Threads :
        /\ Done(t, "load_reviews")
        /\ failure_threshold = 3
        /\ streak = 3
        /\ obs[t].gate = "OPEN_within"
        /\ obs[t].inner = "CircuitOpen"

\* C2. Breaker recovery: a call that finds the breaker OPEN with more than
\* recoveryTimeout elapsed moves it to HALF_OPEN before the operation is
\* called, calls the operation exactly once, and, when that probe succeeds,
\* ends with the breaker CLOSED, failureCount 0 and the response of the probe
\* returned to the caller.
BreakerRecovers ==
    \A t \in Threads :
        obs[t].gate = "OPEN_elapsed" =>
            /\ pc[t] = "call_func" => (state = "HALF_OPEN" /\ Requests(t) = <<>>)
            /\ Done(t, "load_reviews") => Len(Requests(t)) = 1
            /\ (Done(t, "load_reviews") /\ ~Failed(obs[t].last)) =>
                /\ state = "CLOSED"
                /\ failure_count = 0
                /\ obs[t].inner = "returned"
                /\ obs[t].value = obs[t].last.status

\* C2 happens: a probe of the application's breaker succeeded with a 499.
BreakerRecoversWitness ==
    \E t \in Threads :
        /\ Done(t, "load_reviews")
        /\ obs[t].gate = "OPEN_elapsed"
        /\ obs[t].last.status = 499
        /\ recovery_timeout = 5
        /\ state = "CLOSED"

\* C3. Data-model invariant: an OPEN breaker has lastFailureTime set, and
\* between calls a CLOSED breaker has failureCount below failureThreshold.
BreakerInvariant ==
    /\ state = "OPEN" => last_failure_time # None
    /\ (AllIdle /\ state = "CLOSED") => failure_count < failure_threshold

\* C3 happens: a breaker of threshold 3 that has seen a success is CLOSED
\* with two failures counted.
BreakerInvariantWitness ==
    /\ AllIdle
    /\ state = "CLOSED"
    /\ failure_threshold = 3
    /\ failure_count = 2
    /\ ~all_failed

\* What the wrapper does when every call of the operation was made and
\* the number of calls is bounded: shared by C4 as claimed and as amended.
RetryCallsBounded ==
    \A t \in Threads : Len(Calls(t)) <= obs[t].cfg.max_retries + 1

\* the decorated operation of caller t was called, timed out every time,
\* and the wrapper has ended
AlwaysTimedOut(t) == Done(t, "execute") /\ obs[t].timeouts

NonRetryablePropagates ==
    \A t \in Threads :
        ( /\ obs[t].op \in {"execute", "load_recommendations"}
          /\ obs[t].last.exc \notin {"none", "Timeout", "ConnectionError"} ) =>
            /\ pc[t] \in {"idle", "recommendations_end"}
            /\ obs[t].inner = obs[t].last.exc
            /\ Len(Sleeps(t)) = Len(Calls(t)) - 1
            /\ pc[t] = "recommendations_end" => frame[t].retries = Len(Calls(t)) - 1
            /\ Done(t, "execute") => obs[t].result = "raised"

\* C5 happens: the second call of a decorated operation raised ValueError.
NonRetryablePropagatesWitness ==
    \E t \in Threads :
        /\ Done(t, "execute")
        /\ obs[t].last.exc = "ValueError"
        /\ Len(Calls(t)) = 2
        /\ Len(Sleeps(t)) = 1

\* The delay before retry k of caller t, as line 71 caps it, in ticks.
CappedDelay(t) ==
    Min(obs[t].cfg.base_delay * 2 ^ (Len(Sleeps(t)) - 1), obs[t].cfg.max_delay) * Unit

\* C6, as amended. Backoff bounds: the delay slept before retry k, for k in
\* 1..maxRetries, is at least min(baseDelay*2^(k-1), maxDelay) and at most
\* that plus half a time unit.
BackoffBounds ==
    \A t \in Threads :
        obs[t].slept # None =>
            /\ Len(Sleeps(t)) \in 1..obs[t].cfg.max_retries
            /\ CappedDelay(t) <= obs[t].slept
            /\ 2 * obs[t].slept <= 2 * CappedDelay(t) + Unit

\* C6 happens: the third retry under base_delay=1, max_delay=2 was preceded
\* by a sleep of the capped 2 units and the largest jitter.
BackoffBoundsWitness ==
    \E t \in Threads :
        /\ obs[t].cfg.max_delay = 2
        /\ Len(Sleeps(t)) = 3
        /\ 2 * obs[t].slept = 2 * CappedDelay(t) + Unit

\* C6, as claimed: the delay slept before retry k is at least
\* baseDelay*2^(k-1), and at most min(baseDelay*2^(k-1), maxDelay) plus half a
\* time unit.
BackoffBoundsAsClaimed ==
    \A t \in Threads :
        obs[t].slept # None =>
            /\ obs[t].cfg.base_delay * 2 ^ (Len(Sleeps(t)) - 1) * Unit <= obs[t].slept
            /\ 2 * obs[t].slept <= 2 * CappedDelay(t) + Unit

\* C7. Load shedding: load_recommendations sheds exactly when the load it
\* reads is above 80, whatever was shed before; a call that sheds has ended
\* at once, with no request, no call of the decorated method and no sleep.
ShedsAboveThreshold ==
    \A t \in Threads :
        obs[t].op = "load_recommendations" =>
            /\ obs[t].result = "shed" <=> obs[t].load > 80
            /\ obs[t].load > 80 =>
                /\ pc[t] = "idle"
                /\ obs[t].trace = <<>>
                /\ obs[t].slept = None

\* C7 happens: at a load of exactly 80 the call was not shed and went on to
\* the decorated method.
ShedsAboveThresholdWitness ==
    \E t \in Threads :
        /\ Done(t, "load_recommendations")
        /\ obs[t].load = 80
        /\ obs[t].result = "degraded"
        /\ Len(Calls(t)) = 1

\* C8. Tier 2 and Tier 3 never fail externally: load_reviews ends live or
\* with the fallback, load_recommendations live, degraded or shed; neither
\* ever ends by raising.
NeverRaises ==
    \A t \in Threads :
        /\ obs[t].op \in {"load_reviews", "load_recommendations"} =>
            obs[t].result # "raised"
        /\ Done(t, "load_reviews") => obs[t].result \in {"live", "fallback"}
        /\ Done(t, "load_recommendations") => obs[t].result \in {"live", "degraded", "shed"}

\* C8 happens: the operation behind the breaker raised an exception that is
\* no error of requests, and load_reviews ended with the fallback.
NeverRaisesWitness ==
    \E t \in Threads :
        /\ Done(t, "load_reviews")
        /\ obs[t].last.exc = "ValueError"
        /\ obs[t].inner = "ValueError"
        /\ obs[t].result = "fallback"

\* C9. Degradation masking: as long as every request to /unreliable has
\* failed, every load_reviews ends with the fallback; a call that found the
\* breaker CLOSED has left at most 2 failed requests behind it, and after
\* the second the breaker is OPEN; a call that finds it OPEN within the
\* recovery timeout makes no request.
DegradationMasked ==
    all_failed =>
        /\ (AllIdle /\ streak >= 2) => state = "OPEN"
        /\ \A t \in Threads :
            obs[t].op = "load_reviews" =>
                /\ pc[t] = "idle" => obs[t].result = "fallback"
                /\ obs[t].gate = "CLOSED" => streak <= 2
                /\ obs[t].gate = "OPEN_within" => Requests(t) = <<>>

\* C9 happens: after two failures out of two, a third load_reviews within
\* the timeout fell back without a request.
DegradationMaskedWitness ==
    \E t \in Threads :
        /\ all_failed
        /\ streak = 2
        /\ Done(t, "load_reviews")
        /\ obs[t].gate = "OPEN_within"
        /\ obs[t].result = "fallback"
        /\ Requests(t) = <<>>

\* C10, as claimed. Tier 3 live path: a load_recommendations that is not
\* shed has sent between 1 and maxRetries + 1 = 4 requests to /slow, each
\* with the timeout of 3, and is degraded only after all 4 calls.
Tier3LivePath ==
    \A t \in Threads :
        (Done(t, "load_recommendations") /\ obs[t].load <= 80) =>
            /\ Len(Requests(t)) \in 1..4
            /\ \A i \in 1..Len(Requests(t)) :
                /\ Requests(t)[i].target = "/slow"
                /\ Requests(t)[i].arg = 3
            /\ obs[t].result = "degraded" => Len(Calls(t)) = 4

\* caller t takes a step of CircuitBreaker.call inside load_reviews
GatedStep(t) ==
    /\ obs[t].op = "load_reviews"
    /\ pc[t] \notin {"idle", "reviews_log", "reviews_except"}
    /\ pc'[t] # pc[t]

\* a view_product that has ended made one request, to /healthy, and nothing else
TierOneDirect ==
    \A t \in Threads :
        Done(t, "view_product") =>
            obs[t].trace = <<Event("request", "/healthy", None)>>

\* C11. The breaker is mutated only by the gated call path: every step that
\* changes state, failureCount or lastFailureTime is a step of
\* CircuitBreaker.call inside load_reviews; no step of view_product, of
\* load_recommendations and its retry wrapper, or of the ChaosMonkey changes
\* them; and view_product makes exactly one request, without retry.
OnlyGatedPathMutates ==
    /\ [][breaker' # breaker => \E t \in Threads : GatedStep(t)]_vars
    /\ []TierOneDirect

\* C11 happens: view_product failed on a timeout while the breaker was OPEN
\* with two failures counted, and left it so.
OnlyGatedPathMutatesWitness ==
    \E t \in Threads :
        /\ Done(t, "view_product")
        /\ obs[t].last.exc = "Timeout"
        /\ obs[t].result = "critical"
        /\ state = "OPEN"
        /\ failure_count = 2

\* the last call of the operation under the wrapper returned a response
LastAttemptReturned(t) ==
    /\ obs[t].op = "execute"
    /\ Len(Calls(t)) > 0
    /\ obs[t].last.exc = "none"

\* C12. Retry success short-circuit: once a call of the wrapped operation
\* returns, the wrapper has ended and returned exactly that response; with j
\* failed attempts and j delays before it the operation was called j + 1
\* times, j <= max_retries, and the request of that call is the last event:
\* no further attempt and no further delay.
RetryShortCircuit ==
    \A t \in Threads :
        LastAttemptReturned(t) =>
            /\ pc[t] = "idle"
            /\ obs[t].result = "returned"
            /\ obs[t].inner = "returned"
            /\ obs[t].value = obs[t].last.status
            /\ Len(Calls(t)) = Len(Sleeps(t)) + 1
            /\ Len(Calls(t)) <= obs[t].cfg.max_retries + 1
            /\ Len(Requests(t)) = Len(Calls(t))
            /\ obs[t].trace[Len(obs[t].trace)].ev = "request"

\* C12 happens: attempts 0 and 1 failed, attempt 2 returned a response of
\* status 200, which the wrapper returned after three calls and two delays.
RetryShortCircuitWitness ==
    \E t \in Threads :
        /\ LastAttemptReturned(t)
        /\ pc[t] = "idle"
        /\ Len(Calls(t)) = 3
        /\ Len(Sleeps(t)) = 2
        /\ obs[t].cfg.max_retries = 3
        /\ obs[t].value = 200

\* the operation of t's call of the breaker was attempted and failed, and
\* the call has ended
CallFailed(t) ==
    /\ obs[t].op = "load_reviews"
    /\ pc[t] \in {"reviews_except", "idle"}
    /\ Len(Requests(t)) = 1
    /\ Failed(obs[t].last)

\* the exception a failed operation leaves the breaker with
FailureOf(o) == IF o.exc # "none" THEN o.exc ELSE "ServerError"

\* the state a call is in once it has passed the gate
StateAfterGate(gate) == IF gate = "OPEN_elapsed" THEN "HALF_OPEN" ELSE gate

\* C13. Failure recording: every call of the breaker whose operation is
\* attempted and fails ends by raising that failure and never by returning a
\* value; failureCount is exactly one above what the call found,
\* lastFailureTime is set to the clock at the time the failure is handled,
\* and state is OPEN if and only if the new count has reached the threshold,
\* and otherwise as the call left the gate.
FailureRecorded ==
    /\ [](\A t \in Threads :
            CallFailed(t) =>
                /\ obs[t].inner = FailureOf(obs[t].last)
                /\ obs[t].value = None
                /\ obs[t].result \in {"none", "fallback"}
                /\ failure_count = obs[t].count + 1
                /\ last_failure_time # None
                /\ last_failure_time <= now
                /\ state = IF failure_count >= failure_threshold
                           THEN "OPEN" ELSE StateAfterGate(obs[t].gate))
    /\ [][\A t \in Threads :
            pc[t] = "call_stamp" /\ pc'[t] # pc[t] => last_failure_time' = now]_vars

\* C13 happens: under threshold 2 a probe answered 500; the call raised the
\* failure, now counted as the third, stamped at this instant, breaker OPEN.
FailureRecordedWitness ==
    \E t \in Threads :
        /\ CallFailed(t)
        /\ pc[t] = "reviews_except"
        /\ obs[t].gate = "OPEN_elapsed"
        /\ obs[t].last.status = 500
        /\ obs[t].inner = "ServerError"
        /\ failure_threshold = 2
        /\ failure_count = 3
        /\ last_failure_time = now
        /\ state = "OPEN"

\* no caller is inside CircuitBreaker.call
NoCallRunning ==
    \A t \in Threads : pc[t] \in {"idle", "reviews_log", "reviews_except"}

\* C14. No lost update under concurrency: two callers run the call on the
\* breaker of the application, CLOSED with count 0 and threshold 2, their
\* steps interleaved in any order; once both operations have failed and both
\* calls have ended, failureCount is 2 and the breaker is OPEN.
NoLostUpdate ==
    (NoCallRunning /\ all_failed /\ streak = 2) =>
        (failure_count = 2 /\ state = "OPEN")

\* t's call found the breaker OPEN within its recovery window
Rejected(t) == obs[t].op = "load_reviews" /\ obs[t].gate = "OPEN_within"

\* C15. Fail-fast has no side effects: a call that finds the breaker OPEN
\* with the recovery timeout not elapsed is rejected with the circuit-open
\* exception and no request; no step of it changes state, failureCount or
\* lastFailureTime, so the recovery window is neither extended nor shortened.
RejectionFrame ==
    /\ [](\A t \in Threads :
            Rejected(t) =>
                /\ obs[t].inner = "CircuitOpen"
                /\ obs[t].trace = <<>>
                /\ state = "OPEN"
                /\ failure_count = obs[t].count)
    /\ [][\A t \in Threads :
            Rejected(t)' /\ pc'[t] # pc[t] /\ pc[t] # "idle" => UNCHANGED breaker]_vars

\* C15 happens: a call was rejected some time after the failure that opened
\* the breaker, and the count and the stamp are those of that failure.
RejectionFrameWitness ==
    \E t \in Threads :
        /\ Rejected(t)
        /\ Done(t, "load_reviews")
        /\ obs[t].result = "fallback"
        /\ failure_count = failure_threshold
        /\ last_failure_time # None
        /\ now > last_failure_time

\* t takes the step of the gate on an OPEN breaker that has a failure time
GateStepOnOpen(t) ==
    /\ pc[t] = "call_gate"
    /\ pc'[t] # pc[t]
    /\ state = "OPEN"
    /\ last_failure_time # None

\* the ticks since the last failure
Elapsed == now - last_failure_time

\* C16. The recovery boundary is strict: a call that arrives at an OPEN
\* breaker with elapsed time equal to recoveryTimeout, or less, fails fast
\* and the breaker stays OPEN; only with elapsed time strictly greater does
\* the call go on to the operation as a probe, the breaker HALF_OPEN.
RecoveryBoundaryStrict ==
    [][\A t \in Threads :
        GateStepOnOpen(t) =>
            IF Elapsed <= recovery_timeout * Unit
            THEN /\ pc'[t] = "reviews_except"
                 /\ obs'[t].inner = "CircuitOpen"
                 /\ obs'[t].trace = <<>>
                 /\ state' = "OPEN"
            ELSE /\ pc'[t] = "call_func"
                 /\ state' = "HALF_OPEN"]_vars

\* C16 happens: a call arrived exactly recoveryTimeout after the failure
\* that opened the breaker and has just been rejected.
RecoveryBoundaryStrictWitness ==
    \E t \in Threads :
        /\ pc[t] = "reviews_except"
        /\ obs[t].inner = "CircuitOpen"
        /\ state = "OPEN"
        /\ last_failure_time # None
        /\ Elapsed = recovery_timeout * Unit

\* the operation of t's call of the breaker was attempted and the call has
\* ended
CallEnded(t) ==
    /\ obs[t].op = "load_reviews"
    /\ pc[t] \in {"reviews_log", "reviews_except", "idle"}
    /\ Len(Requests(t)) = 1

\* C17. Failure classification: an attempted call is a failure exactly when
\* the operation raises or answers with a status of 500 or above.  Any
\* response below 500 (499 as against 500) is a success: it is returned to
\* the caller, failureCount is 0 and the breaker CLOSED; every other outcome
\* is raised and counted.
FailureClassification ==
    \A t \in Threads :
        CallEnded(t) =>
            IF obs[t].last.exc = "none" /\ obs[t].last.status < 500
            THEN /\ obs[t].inner = "returned"
                 /\ obs[t].value = obs[t].last.status
                 /\ failure_count = 0
                 /\ state = "CLOSED"
            ELSE /\ obs[t].inner = FailureOf(obs[t].last)
                 /\ obs[t].value = None
                 /\ failure_count = obs[t].count + 1

\* C17 happens: a probe of a breaker that had counted two failures was
\* answered with status 499, which was returned and closed the breaker.
FailureClassificationWitness ==
    \E t \in Threads :
        /\ CallEnded(t)
        /\ pc[t] = "reviews_log"
        /\ obs[t].gate = "OPEN_elapsed"
        /\ obs[t].count = 2
        /\ obs[t].last.status = 499
        /\ obs[t].value = 499
        /\ failure_count = 0
        /\ state = "CLOSED"

\* t takes the step at position p of a probe: the breaker is HALF_OPEN
ProbeStep(t, p) == pc[t] = p /\ pc'[t] # pc[t] /\ state = "HALF_OPEN"

\* C18. A failed probe always re-opens: with one caller and a threshold of 1
\* or more, failureCount is at or above the threshold whenever the breaker
\* is OPEN or HALF_OPEN; so a probe that fails stamps lastFailureTime with
\* the time of its failure, later than the window that had elapsed, and
\* puts the breaker back to OPEN; and once a call has ended the state is
\* CLOSED or OPEN, never HALF_OPEN.
FailedProbeReopens ==
    /\ [](state \in {"OPEN", "HALF_OPEN"} => failure_count >= failure_threshold)
    /\ [](NoCallRunning => state \in {"CLOSED", "OPEN"})
    /\ [][\A t \in Threads :
            /\ ProbeStep(t, "call_stamp") =>
                /\ last_failure_time' = now
                /\ last_failure_time' > last_failure_time + recovery_timeout * Unit
            /\ ProbeStep(t, "call_trip") => state' = "OPEN"]_vars

\* C18 happens: the probe of a breaker of threshold 1 timed out; the call
\* has ended with the breaker OPEN again, two failures counted, the stamp
\* that of this failure.
FailedProbeReopensWitness ==
    \E t \in Threads :
        /\ pc[t] = "reviews_except"
        /\ obs[t].gate = "OPEN_elapsed"
        /\ obs[t].last.exc = "Timeout"
        /\ obs[t].inner = "Timeout"
        /\ failure_threshold = 1
        /\ failure_count = 2
        /\ state = "OPEN"
        /\ last_failure_time = now

\* C19. Only consecutive failures trip the breaker: between calls, a CLOSED
\* breaker's failureCount is the number of attempted calls that have failed
\* since the last successful call, or since construction; and a breaker that
\* is not CLOSED has seen at least failureThreshold such failures in a row
\* (until the success of a probe is about to close it), so fewer than that
\* between successes never open it.
ConsecutiveFailuresTrip ==
    /\ (NoCallRunning /\ state = "CLOSED") => failure_count = streak
    /\ state = "OPEN" => streak >= failure_threshold
    /\ (state = "HALF_OPEN" /\ \A t \in Threads : pc[t] # "call_success") =>
            streak >= failure_threshold

\* C19 happens: after a success, the application's breaker has seen one
\* more failure, found the count at 0, and is CLOSED with a count of 1.
ConsecutiveFailuresTripWitness ==
    \E t \in Threads :
        /\ Done(t, "load_reviews")
        /\ Failed(obs[t].last)
        /\ obs[t].count = 0
        /\ ~all_failed
        /\ streak = 1
        /\ failure_threshold = 2
        /\ failure_count = 1
        /\ state = "CLOSED"

\* the trace of a decorated operation is attempts with one delay between
\* them: call, request, sleep, call, request, sleep, ...
Interleaved(tr) ==
    \A i \in 1..Len(tr) :
        tr[i].ev = CASE i % 3 = 1 -> "call"
                     [] i % 3 = 2 -> "request"
                     [] OTHER     -> "sleep"

\* the base component of the delay before attempt k
BaseComponent(k, cfg) ==
    IF cfg.base_delay * 2 ^ (k - 1) <= cfg.max_delay
    THEN cfg.base_delay * 2 ^ (k - 1) ELSE cfg.max_delay

\* C20. Ordering of attempts and delays: the wrapper starts with attempt 0,
\* without a delay before it; between failed attempt k-1 and attempt k it
\* sleeps exactly once, with base component min(baseDelay * 2^(k-1),
\* maxDelay); it ends on an attempt and never on a delay; and an operation
\* whose attempts all fail with retryable errors is called maxRetries + 1
\* times with maxRetries delays between the calls before the failure is
\* raised.
AttemptsAndDelaysOrdered ==
    \A t \in Threads :
        obs[t].op = "execute" =>
            LET tr == obs[t].trace
                cfg == obs[t].cfg
            IN  /\ Interleaved(tr)
                /\ \A k \in 1..Len(Sleeps(t)) :
                        /\ k <= cfg.max_retries
                        /\ Sleeps(t)[k].arg = BaseComponent(k, cfg)
                /\ pc[t] = "wrapper_sleep" => Len(tr) % 3 = 2
                /\ pc[t] = "idle" => Len(tr) % 3 = 2
                /\ (pc[t] = "idle" /\ obs[t].last.exc \in {"Timeout", "ConnectionError"}) =>
                        /\ obs[t].result = "raised"
                        /\ Len(Calls(t)) = cfg.max_retries + 1
                        /\ Len(Sleeps(t)) = cfg.max_retries

\* C20 happens: with max_retries 2, base_delay 2 and max_delay 3 every
\* attempt ended in a connection error; three calls with the delays 2 and 3
\* between them, then the error was raised.
AttemptsAndDelaysOrderedWitness ==
    \E t \in Threads :
        /\ Done(t, "execute")
        /\ obs[t].result = "raised"
        /\ obs[t].last.exc = "ConnectionError"
        /\ obs[t].cfg = [max_retries |-> 2, base_delay |-> 2, max_delay |-> 3]
        /\ Len(obs[t].trace) = 8
        /\ Sleeps(t)[1].arg = 2
        /\ Sleeps(t)[2].arg = 3

============================================================================
